---- MODULE Spec2Model ----
(***************************************************************************)
(* Model of scripts/update-manifest.js of the scoop bucket: one run of the *)
(* manifest updater, in its two variants (the resolver-driven variant that *)
(* takes <manifest> <owner> <repo> <version>, and the older variant that   *)
(* takes <manifest> <repo> <version> <run-id>).                            *)
(*                                                                         *)
(* Strings are sequences of one-character strings, so that includes,       *)
(* split, replace and the regular expression are computed as JavaScript    *)
(* computes them.  A file is a sequence of JSON lexemes, whitespace        *)
(* included, so that JSON.parse and JSON.stringify are computed too.       *)
(* Every action is one macrotask of the Node.js event loop together with   *)
(* the promise continuations (microtasks) it schedules.                    *)
(***************************************************************************)
EXTENDS Integers, Sequences, FiniteSets, TLC

----------------------------------------------------------------------------
(* String literals of the source. *)

S_windows == <<"w","i","n","d","o","w","s">>
S_amd64 == <<"a","m","d","6","4">>
S_x86_64 == <<"x","8","6","_","6","4">>
S_dollarVersion == <<"$","v","e","r","s","i","o","n">>
S_sha256Suffix == <<".","s","h","a","2","5","6">>
S_apiPrefix ==
    <<"h","t","t","p","s",":","/","/","a","p","i",".","g","i","t","h","u","b",".","c","o","m",
    "/","r","e","p","o","s","/">>
S_tagsPath == <<"/","r","e","l","e","a","s","e","s","/","t","a","g","s","/">>
S_regexHead == <<"h","t","t","p","s",":","/","/","g","i","t","h","u","b">>
S_regexCom == <<"c","o","m","/">>
K_version == <<"v","e","r","s","i","o","n">>
K_homepage == <<"h","o","m","e","p","a","g","e">>
K_license == <<"l","i","c","e","n","s","e">>
K_url == <<"u","r","l">>
K_hash == <<"h","a","s","h">>
K_bin == <<"b","i","n">>
K_checkver == <<"c","h","e","c","k","v","e","r">>
K_github == <<"g","i","t","h","u","b">>
K_autoupdate == <<"a","u","t","o","u","p","d","a","t","e">>

----------------------------------------------------------------------------
(* JavaScript string methods used by the script. *)

Max(S) == CHOOSE x \in S : \A y \in S : y <= x
Min(S) == CHOOSE x \in S : \A y \in S : x <= y

\* sub occurs in s at (1-based) position i
OccursAt(s, sub, i) ==
    /\ i >= 1
    /\ i + Len(sub) - 1 <= Len(s)
    /\ SubSeq(s, i, i + Len(sub) - 1) = sub

\* String.prototype.includes
includes(s, sub) == \E i \in 1..(Len(s) + 1) : OccursAt(s, sub, i)

\* String.prototype.indexOf, 1-based; 0 when sub does not occur
indexOf(s, sub) ==
    IF includes(s, sub)
    THEN Min({i \in 1..(Len(s) + 1) : OccursAt(s, sub, i)})
    ELSE 0

\* GetSubstitution of ECMAScript for a string pattern (no capture groups):
\* $$ is a dollar sign, $& the match, $` the text before it, $' the text
\* after it; any other $ is literal.
RECURSIVE GetSubstitution(_, _, _, _)
GetSubstitution(repl, matched, before, after) ==
    IF repl = <<>> THEN <<>>
    ELSE IF Head(repl) = "$" /\ Len(repl) >= 2 /\ repl[2] \in {"$", "&", "`", "'"}
    THEN (CASE repl[2] = "$" -> <<"$">>
            [] repl[2] = "&" -> matched
            [] repl[2] = "`" -> before
            [] repl[2] = "'" -> after)
         \o GetSubstitution(SubSeq(repl, 3, Len(repl)), matched, before, after)
    ELSE <<Head(repl)>> \o GetSubstitution(Tail(repl), matched, before, after)

\* String.prototype.replace with a string pattern: the first occurrence only
replace(s, pat, repl) ==
    LET i == indexOf(s, pat) IN
    IF i = 0 THEN s
    ELSE LET before == SubSeq(s, 1, i - 1)
             after  == SubSeq(s, i + Len(pat), Len(s))
         IN before \o GetSubstitution(repl, pat, before, after) \o after

\* s.split("/").pop(): the text after the last slash
splitPop(s) ==
    LET slashes == {i \in 1..Len(s) : s[i] = "/"} IN
    IF slashes = {} THEN s ELSE SubSeq(s, Max(slashes) + 1, Len(s))

----------------------------------------------------------------------------
(* JavaScript values that JSON.parse yields: strings and objects.  An      *)
(* object is the sequence of its properties in insertion order.            *)

Undefined == [t |-> "undef", s |-> <<>>, kv |-> <<>>]
JStr(s)   == [t |-> "str",   s |-> s,    kv |-> <<>>]
JObj(kv)  == [t |-> "obj",   s |-> <<>>, kv |-> kv]

\* ToBoolean: an object is truthy, a string is truthy unless empty
Truthy(v) == v.t = "obj" \/ (v.t = "str" /\ v.s # <<>>)

KeyIndex(kv, k) ==
    IF \E i \in 1..Len(kv) : kv[i].k = k
    THEN Min({i \in 1..Len(kv) : kv[i].k = k})
    ELSE 0

\* [[DefineOwnProperty]] on the property list: an existing key keeps its
\* place, a new key is appended
PutKey(kv, k, x) ==
    LET i == KeyIndex(kv, k) IN
    IF i = 0 THEN Append(kv, [k |-> k, v |-> x])
    ELSE [kv EXCEPT ![i] = [k |-> k, v |-> x]]

\* v[k]; undefined for a missing key and for a string (its only own
\* properties are length and the indices)
GetProp(v, k) ==
    IF v.t = "obj" /\ KeyIndex(v.kv, k) # 0 THEN v.kv[KeyIndex(v.kv, k)].v
    ELSE Undefined

\* v[k] = x in sloppy mode: assigning to a property of a string primitive
\* is silently dropped.  On undefined it throws TypeError (see CanAssign).
SetProp(v, k, x) == IF v.t = "obj" THEN JObj(PutKey(v.kv, k, x)) ELSE v

CanAssign(v) == v.t # "undef"

----------------------------------------------------------------------------
(* JSON text as lexemes.  nl is a line feed followed by n spaces, sp is n  *)
(* spaces; junk is any lexeme that is not JSON.                            *)

Tok(k, n, s) == [k |-> k, n |-> n, s |-> s]
LBrace == Tok("lbrace", 0, <<>>)
RBrace == Tok("rbrace", 0, <<>>)
Colon  == Tok("colon", 0, <<>>)
Comma  == Tok("comma", 0, <<>>)
StrTok(s) == Tok("str", 0, s)
NL(n)  == Tok("nl", n, <<>>)
SP(n)  == Tok("sp", n, <<>>)
Junk   == Tok("junk", 0, <<>>)
IsWs(tk) == tk.k \in {"nl", "sp"}

\* JSON.stringify(value, null, indent): SerializeJSONObject with gap = indent
\* spaces; with an empty gap there is no line break and no space after ':'
RECURSIVE Ser(_, _, _), SerMembers(_, _, _, _)
Ser(v, indent, depth) ==
    IF v.t = "str" THEN <<StrTok(v.s)>>
    ELSE IF v.kv = <<>> THEN <<LBrace, RBrace>>
    ELSE <<LBrace>> \o SerMembers(v.kv, 1, indent, depth + 1)
         \o (IF indent > 0 THEN <<NL(indent * depth)>> ELSE <<>>) \o <<RBrace>>
SerMembers(kv, i, indent, depth) ==
    IF i > Len(kv) THEN <<>>
    ELSE (IF indent > 0 THEN <<NL(indent * depth)>> ELSE <<>>)
         \o <<StrTok(kv[i].k), Colon>>
         \o (IF indent > 0 THEN <<SP(1)>> ELSE <<>>)
         \o Ser(kv[i].v, indent, depth)
         \o (IF i < Len(kv) THEN <<Comma>> ELSE <<>>)
         \o SerMembers(kv, i + 1, indent, depth)

Stringify(v, indent) == Ser(v, indent, 0)

\* JSON.parse: whitespace is skipped between lexemes; a duplicate key
\* overwrites the value and keeps the first position
ParseFail == [ok |-> FALSE, v |-> Undefined, next |-> 0]
RECURSIVE ParseValue(_, _), ParseMembers(_, _, _)
ParseValue(ts, i) ==
    IF i > Len(ts) THEN ParseFail
    ELSE IF ts[i].k = "str" THEN [ok |-> TRUE, v |-> JStr(ts[i].s), next |-> i + 1]
    ELSE IF ts[i].k = "lbrace"
    THEN IF i + 1 <= Len(ts) /\ ts[i + 1].k = "rbrace"
         THEN [ok |-> TRUE, v |-> JObj(<<>>), next |-> i + 2]
         ELSE ParseMembers(ts, i + 1, <<>>)
    ELSE ParseFail
ParseMembers(ts, i, acc) ==
    IF i + 1 > Len(ts) \/ ts[i].k # "str" \/ ts[i + 1].k # "colon" THEN ParseFail
    ELSE LET r == ParseValue(ts, i + 2) IN
         IF ~r.ok \/ r.next > Len(ts) THEN ParseFail
         ELSE LET acc2 == PutKey(acc, ts[i].s, r.v) IN
              IF ts[r.next].k = "comma" THEN ParseMembers(ts, r.next + 1, acc2)
              ELSE IF ts[r.next].k = "rbrace"
              THEN [ok |-> TRUE, v |-> JObj(acc2), next |-> r.next + 1]
              ELSE ParseFail

\* mutant: lexemes after the first complete value are ignored
JSONparseLenient(toks) ==
    LET ts == SelectSeq(toks, LAMBDA tk : ~IsWs(tk))
        r  == ParseValue(ts, 1)
    IN IF r.ok THEN [ok |-> TRUE, v |-> r.v]
       ELSE [ok |-> FALSE, v |-> Undefined]

JSONparse(toks) ==
    LET ts == SelectSeq(toks, LAMBDA tk : ~IsWs(tk))
        r  == ParseValue(ts, 1)
    IN IF r.ok /\ r.next = Len(ts) + 1 THEN [ok |-> TRUE, v |-> r.v]
       ELSE [ok |-> FALSE, v |-> Undefined]

----------------------------------------------------------------------------
(* Bounds of the model. *)

MaxArgs == 5      \* most positional arguments of an invocation
MaxHops == 3      \* most asset requests of one run (redirects followed + 1)
MaxChunks == 2    \* most 'data' events of one asset response

----------------------------------------------------------------------------
(* Inputs: arguments, asset names and URLs, release pages, old field       *)
(* values of the manifests.                                                *)

PathArg == <<"m",".","j","s","o","n">>
OwnerArg == <<"o">>
RepoArg == <<"r">>
OwnerRepoArg == <<"o","/","r">>
RunIdArg == <<"7">>
ExtraArg == <<"x">>
V_0_0_34 == <<"0",".","0",".","3","4">>
V_v1 == <<"v","1">>
DownloadBase ==
    <<"h","t","t","p","s",":","/","/","g","i","t","h","u","b",".","c","o","m",
      "/","o","/","r","/","r","e","l","e","a","s","e","s","/","d","o","w","n",
      "l","o","a","d","/">>
N_linux ==
    <<"a","p","p","-","l","i","n","u","x","-","a","m","d","6","4",".","t","a",
      "r",".","g","z">>
N_win34 ==
    <<"a","p","p","-","0",".","0",".","3","4","-","w","i","n","d","o","w","s",
      "-","a","m","d","6","4",".","z","i","p">>
N_win33 ==
    <<"a","p","p","-","0",".","0",".","3","3","-","w","i","n","d","o","w","s",
      "-","a","m","d","6","4",".","z","i","p">>
N_x86 ==
    <<"a","p","p","-","w","i","n","d","o","w","s","-","x","8","6","_","6","4",
      ".","z","i","p">>
N_arm ==
    <<"a","p","p","-","w","i","n","d","o","w","s","-","a","r","m","6","4",".",
      "z","i","p">>
N_dup == <<"v","1","-","w","i","n","d","o","w","s","-","a","m","d","6","4">>
H_release ==
    <<"h","t","t","p","s",":","/","/","g","i","t","h","u","b",".","c","o","m",
      "/","o","/","r","/","r","e","l","e","a","s","e","s","/","t","a","g","/",
      "v","0",".","0",".","3","4">>
H_other ==
    <<"h","t","t","p","s",":","/","/","e","x","a","m","p","l","e",".","o","r",
      "g","/","o","/","r">>
\* a page URL in which the repository URL does not come first, and one
\* whose host has another character where github.com has its dot
H_nested == <<"x", "/">> \o H_release
H_dot ==
    <<"h","t","t","p","s",":","/","/","g","i","t","h","u","b","-","c","o","m",
      "/","o","/","r","/","t">>
L_cdn ==
    <<"h","t","t","p","s",":","/","/","c","d","n",".","e","x","a","m","p","l",
      "e","/","f">>
O_version == <<"0",".","0",".","3","3">>
O_homepage ==
    <<"h","t","t","p","s",":","/","/","o","l","d",".","e","x","a","m","p","l",
      "e">>
O_license == <<"M","I","T">>
O_url ==
    <<"h","t","t","p","s",":","/","/","o","l","d",".","e","x","a","m","p","l",
      "e","/","a",".","z","i","p">>
O_hash == <<"0","l","d">>
O_bin == <<"a","p","p",".","e","x","e">>
O_github ==
    <<"h","t","t","p","s",":","/","/","o","l","d",".","e","x","a","m","p","l",
      "e","/","g","h">>
O_auUrl ==
    <<"h","t","t","p","s",":","/","/","o","l","d",".","e","x","a","m","p","l",
      "e","/","$","v","e","r","s","i","o","n",".","z","i","p">>
O_auHashUrl == <<"$","u","r","l",".","s","h","a","2","5","6">>
O_text == <<"t","e","x","t">>

U_linux == DownloadBase \o <<"v">> \o V_0_0_34 \o <<"/">> \o N_linux
U_win34 == DownloadBase \o <<"v">> \o V_0_0_34 \o <<"/">> \o N_win34
U_win33 == DownloadBase \o <<"v">> \o O_version \o <<"/">> \o N_win33
U_x86   == DownloadBase \o <<"v">> \o V_0_0_34 \o <<"/">> \o N_x86
U_arm   == DownloadBase \o <<"v">> \o V_0_0_34 \o <<"/">> \o N_arm
\* a release whose tag is spelled like its asset
U_dup   == DownloadBase \o N_dup \o <<"/">> \o N_dup

Asset(name, url) == [name |-> name, browser_download_url |-> url]
A_linux == Asset(N_linux, U_linux)
A_win34 == Asset(N_win34, U_win34)
A_win33 == Asset(N_win33, U_win33)
A_x86   == Asset(N_x86, U_x86)
A_arm   == Asset(N_arm, U_arm)
A_dup   == Asset(N_dup, U_dup)

Versions == {V_0_0_34, V_v1}
Variants == {"resolver", "older"}

\* Bodies the release API may answer with: text that is not JSON, a JSON
\* object without an assets array, and release objects.
Release(assets, html) ==
    [json |-> TRUE, hasAssets |-> TRUE, assets |-> assets, html_url |-> html]
BodyIds ==
    {"invalid", "message", "linuxOnly", "mixed", "x86first", "rel33", "dup",
     "badHtml", "nestedHtml", "dotHtml"}
Body(id) ==
    CASE id = "invalid"   -> [json |-> FALSE, hasAssets |-> FALSE,
                              assets |-> <<>>, html_url |-> <<>>]
      [] id = "message"   -> [json |-> TRUE, hasAssets |-> FALSE,
                              assets |-> <<>>, html_url |-> <<>>]
      [] id = "linuxOnly" -> Release(<<A_linux>>, H_release)
      [] id = "mixed"     -> Release(<<A_arm, A_linux, A_win34, A_x86>>, H_release)
      [] id = "x86first"  -> Release(<<A_linux, A_x86, A_win34>>, H_release)
      [] id = "rel33"     -> Release(<<A_win33>>, H_release)
      [] id = "dup"       -> Release(<<A_dup>>, H_release)
      [] id = "badHtml"   -> Release(<<A_win34>>, H_other)
      [] id = "nestedHtml" -> Release(<<A_win34>>, H_nested)
      [] id = "dotHtml"   -> Release(<<A_win34>>, H_dot)

\* Manifests on disk before the run.
P(k, v) == [k |-> k, v |-> v]
Required ==
    <<P(K_version, JStr(O_version)), P(K_homepage, JStr(O_homepage)),
      P(K_license, JStr(O_license)), P(K_url, JStr(O_url)),
      P(K_hash, JStr(O_hash))>>
Checkver == P(K_checkver, JObj(<<P(K_github, JStr(O_github))>>))
M_min == JObj(Required)
M_checkver == JObj(Required \o <<P(K_bin, JStr(O_bin)), Checkver>>)
M_full ==
    JObj(Required \o <<P(K_bin, JStr(O_bin)), Checkver,
         P(K_autoupdate,
           JObj(<<P(K_url, JStr(O_auUrl)),
                  P(K_hash, JObj(<<P(K_url, JStr(O_auHashUrl)),
                                   P(K_license, JStr(O_text))>>)),
                  P(K_bin, JStr(O_bin))>>))>>)
M_noHash ==
    JObj(Required \o <<Checkver,
         P(K_autoupdate, JObj(<<P(K_url, JStr(O_auUrl))>>))>>)
M_emptyHashUrl ==
    JObj(Required \o <<Checkver,
         P(K_autoupdate,
           JObj(<<P(K_url, JStr(O_auUrl)),
                  P(K_hash, JObj(<<P(K_url, JStr(<<>>))>>))>>))>>)
\* not well formed: no homepage, a checkver object without github, an
\* autoupdate object without url
M_sparse ==
    JObj(<<P(K_version, JStr(O_version)), P(K_license, JStr(O_license)),
           P(K_url, JStr(O_url)), P(K_hash, JStr(O_hash)),
           P(K_checkver, JObj(<<>>)), P(K_autoupdate, JObj(<<>>))>>)
\* autoupdate without checkver (the older variant's manifests)
M_autoOnly ==
    JObj(Required \o
         <<P(K_autoupdate,
             JObj(<<P(K_url, JStr(O_auUrl)),
                    P(K_hash, JObj(<<P(K_url, JStr(O_auHashUrl))>>))>>))>>)

WellFormedManifests ==
    {M_min, M_checkver, M_full, M_noHash, M_emptyHashUrl, M_autoOnly}

File(toks) == [exists |-> TRUE, toks |-> toks]
NoFile == [exists |-> FALSE, toks |-> <<>>]
Pretty(m) == Stringify(m, 2) \o <<NL(0)>>
Truncated(toks) == SubSeq(toks, 1, Len(toks) - 2)

JsonFiles ==
    {File(Pretty(m)) : m \in WellFormedManifests \cup {M_sparse}}
    \cup {File(Stringify(M_full, 0)),              \* compact, no newline
          File(Stringify(M_full, 4) \o <<NL(0), NL(0)>>)}
NonJsonFiles ==
    {File(<<>>), File(<<Junk, NL(0)>>), File(Truncated(Pretty(M_full))),
     File(Stringify(M_min, 2) \o <<Comma>>)}
Disks == JsonFiles \cup NonJsonFiles \cup {NoFile}

FullArgs(v, ver) ==
    IF v = "resolver" THEN <<PathArg, OwnerArg, RepoArg, ver>>
    ELSE <<PathArg, OwnerRepoArg, ver, RunIdArg>>
RECURSIVE Extras(_)
Extras(n) == IF n <= 0 THEN <<>> ELSE <<ExtraArg>> \o Extras(n - 1)
ArgLists(v) ==
    {SubSeq(FullArgs(v, ver), 1, n) : ver \in Versions, n \in 0..4}
    \cup {FullArgs(v, ver) \o Extras(n) : ver \in Versions, n \in 1..(MaxArgs - 4)}

----------------------------------------------------------------------------
(* The pure parts of the script. *)

\* mutant: surplus arguments are accepted
ArgsOkAtLeast(a) == Len(a) >= 4

\* argument check: both variants take exactly four positional arguments
ArgsOk(a) == Len(a) = 4

\* exit status of the usage error
UsageExit(v) == IF v = "resolver" THEN 5 ELSE 1

\* the new version: the 4th argument (resolver) or the 3rd (older)
newVersionOf(v, a) == IF v = "resolver" THEN a[4] ELSE a[3]

\* the release-lookup URL built by getReleaseInfo
releaseUrl(v, a) ==
    IF v = "resolver"
    THEN S_apiPrefix \o a[2] \o <<"/">> \o a[3] \o S_tagsPath \o a[4]
    ELSE S_apiPrefix \o a[2] \o S_tagsPath \o <<"v">> \o a[3]

\* mutant: the architecture is not looked at
IsWindowsAssetAnyArch(v, name) == includes(name, S_windows)

\* the predicate given to release.assets.find
IsWindowsAsset(v, name) ==
    IF v = "resolver"
    THEN includes(name, S_windows)
         /\ (includes(name, S_amd64) \/ includes(name, S_x86_64))
    ELSE includes(name, S_windows) /\ includes(name, S_amd64)

\* mutant: falls back to the first asset when none satisfies the predicate
windowsAssetOrFirst(v, assets) ==
    LET hits == {i \in 1..Len(assets) :
                    includes(assets[i].name, S_windows)
                    /\ includes(assets[i].name, S_amd64)} IN
    IF hits # {} THEN Min(hits) ELSE IF assets = <<>> THEN 0 ELSE 1

\* Array.prototype.find: the index of the first asset that satisfies the
\* predicate, 0 (undefined) when none does
windowsAsset(v, assets) ==
    LET hits == {i \in 1..Len(assets) : IsWindowsAsset(v, assets[i].name)} IN
    IF hits = {} THEN 0 ELSE Min(hits)

\* length of the run of characters other than "/" that starts at p
RECURSIVE RunLen(_, _)
RunLen(s, p) ==
    IF p > Len(s) \/ s[p] = "/" THEN 0 ELSE 1 + RunLen(s, p + 1)

\* end of the match of https://github.com/[^/]+/[^/]+ that starts at i, 0
\* when there is none.  The pattern comes from a string literal, so its dot
\* is unescaped and stands for any character.
MatchEnd(s, i) ==
    LET dot   == i + Len(S_regexHead)
        owner == dot + 1 + Len(S_regexCom)
        n1    == RunLen(s, owner)
        repo  == owner + n1 + 1
        n2    == RunLen(s, repo)
    IN IF /\ OccursAt(s, S_regexHead, i)
          /\ dot <= Len(s)
          /\ OccursAt(s, S_regexCom, dot + 1)
          /\ n1 >= 1
          /\ owner + n1 <= Len(s)
          /\ n2 >= 1
       THEN repo + n2 - 1
       ELSE 0

\* release.html_url.match(RegExp(...)): the leftmost match, or null
repoUrlMatch(s) ==
    LET starts == {i \in 1..Len(s) : MatchEnd(s, i) # 0} IN
    IF starts = {} THEN [found |-> FALSE, text |-> <<>>]
    ELSE [found |-> TRUE,
          text |-> SubSeq(s, Min(starts), MatchEnd(s, Min(starts)))]

\* Buffer.concat(chunks)
RECURSIVE BufferConcat(_)
BufferConcat(chunks) ==
    IF chunks = <<>> THEN <<>> ELSE Head(chunks) \o BufferConcat(Tail(chunks))

\* createHash("sha256").update(buffer).digest("hex"), taken as free of
\* collisions: the digest names the bytes it was computed from
sha256hex(buffer) == <<"s","h","a",":">> \o buffer

\* mutant: the version is replaced in the whole URL, not in the filename
autoupdateUrlWholeUrl(assetUrl, newVersion) ==
    replace(assetUrl, newVersion, S_dollarVersion)

\* the autoupdate URL template
autoupdateUrl(assetUrl, newVersion) ==
    LET assetName         == splitPop(assetUrl)
        templateAssetName == replace(assetName, newVersion, S_dollarVersion)
    IN replace(assetUrl, assetName, templateAssetName)

\* mutant: only autoupdate.hash is tested
HasHashUrlHashOnly(autoupdate) == Truthy(GetProp(autoupdate, K_hash))

\* manifest.autoupdate.hash && manifest.autoupdate.hash.url
HasHashUrl(autoupdate) ==
    Truthy(GetProp(autoupdate, K_hash))
    /\ Truthy(GetProp(GetProp(autoupdate, K_hash), K_url))

\* mutant: the autoupdate object is built anew instead of being merged into
updateAutoupdateRegenerated(manifest, assetUrl, newVersion) ==
    IF ~Truthy(GetProp(manifest, K_autoupdate)) THEN manifest
    ELSE SetProp(manifest, K_autoupdate,
                 JObj(<<[k |-> K_url,
                         v |-> JStr(replace(assetUrl, newVersion, S_dollarVersion))]>>))

HashUrlOfAu(au) == GetProp(GetProp(au, K_hash), K_url).s

\* mutant: the suffix is appended to the hash URL the manifest already has
updateAutoupdateAppend(manifest, assetUrl, newVersion) ==
    LET au == GetProp(manifest, K_autoupdate) IN
    IF ~Truthy(au) THEN manifest
    ELSE LET au1 == SetProp(au, K_url, JStr(autoupdateUrl(assetUrl, newVersion)))
             au2 == IF HasHashUrl(au1)
                    THEN SetProp(au1, K_hash,
                                 SetProp(GetProp(au1, K_hash), K_url,
                                         JStr(HashUrlOfAu(au1) \o S_sha256Suffix)))
                    ELSE au1
         IN SetProp(manifest, K_autoupdate, au2)

\* the autoupdate block of updateManifest
updateAutoupdate(manifest, assetUrl, newVersion) ==
    LET au == GetProp(manifest, K_autoupdate) IN
    IF ~Truthy(au) THEN manifest
    ELSE LET au1 == SetProp(au, K_url, JStr(autoupdateUrl(assetUrl, newVersion)))
             au2 == IF HasHashUrl(au1)
                    THEN SetProp(au1, K_hash,
                                 SetProp(GetProp(au1, K_hash), K_url,
                                         JStr(assetUrl \o S_sha256Suffix)))
                    ELSE au1
         IN SetProp(manifest, K_autoupdate, au2)

\* manifest.homepage = releaseInfo.repoUrl (resolver variant only)
setHomepage(v, manifest, repoUrl) ==
    IF v = "resolver" THEN SetProp(manifest, K_homepage, JStr(repoUrl))
    ELSE manifest

\* manifest.checkver.github = releaseInfo.repoUrl (resolver variant only):
\* TypeError when manifest.checkver is undefined
checkverThrows(v, manifest) ==
    v = "resolver" /\ ~CanAssign(GetProp(manifest, K_checkver))

setCheckver(v, manifest, repoUrl) ==
    IF v = "resolver"
    THEN SetProp(manifest, K_checkver,
                 SetProp(GetProp(manifest, K_checkver), K_github, JStr(repoUrl)))
    ELSE manifest

\* the field assignments of updateManifest, in source order
updateFields(v, manifest, relInfo, newVersion) ==
    LET m1 == SetProp(manifest, K_version, JStr(newVersion))
        m2 == setHomepage(v, m1, relInfo.repoUrl)
        m3 == SetProp(m2, K_url, JStr(relInfo.assetUrl))
        m4 == setCheckver(v, m3, relInfo.repoUrl)
        m5 == SetProp(m4, K_hash, JStr(relInfo.hash))
    IN IF checkverThrows(v, m3) THEN [ok |-> FALSE, m |-> m3]
       ELSE [ok |-> TRUE, m |-> updateAutoupdate(m5, relInfo.assetUrl, newVersion)]

\* JSON.stringify(manifest, null, 2) + "\n"
updatedContent(manifest) == Stringify(manifest, 2) \o <<NL(0)>>

----------------------------------------------------------------------------
(* State of one run. *)

VARIABLES
    variant,      \* which updater runs: "resolver" or "older"
    args,         \* process.argv.slice(2)
    env,          \* process.env: GITHUB_TOKEN is undefined or a string
    disk,         \* the file at the manifest path
    disk0,        \* that file before the run
    pc,           \* "start", "awaitRelease", "awaitAsset", "returned", "exited"
    exitCode,     \* process exit status, -1 while running
    err,          \* the error that ended the run, "none" otherwise
    manifest,     \* the parsed manifest held by updateManifest
    release,      \* id of the release body httpsRequest resolved with
    releaseInfo,  \* what getReleaseInfo returned
    reqs,         \* every https.get issued, in order, with its state
    log           \* file reads, requests, hash and file writes, in order

vars ==
    <<variant, args, env, disk, disk0, pc, exitCode, err, manifest, release,
      releaseInfo, reqs, log>>

NoInfo ==
    [set |-> FALSE, version |-> <<>>, repoUrl |-> <<>>, releaseUrl |-> <<>>,
     assetUrl |-> <<>>, hash |-> <<>>]

NewReq(kind, url, auth, parent) ==
    [kind |-> kind, url |-> url, auth |-> auth, parent |-> parent,
     st |-> "sent", status |-> 0, location |-> <<>>, todo |-> <<>>,
     data |-> <<>>, promise |-> "pending"]

\* httpsRequest(url): the Authorization header is added in the resolver
\* variant when process.env.GITHUB_TOKEN is truthy
httpsRequest(v, e, url) ==
    NewReq("meta", url, v = "resolver" /\ Truthy(e.GITHUB_TOKEN), 0)

\* mutant: the download carries the Authorization header
downloadAssetWithAuth(url, parent) == NewReq("asset", url, TRUE, parent)

\* downloadAsset(url): https.get(url, callback) with no options; parent is
\* the request whose promise is settled with this one's outcome
downloadAsset(url, parent) == NewReq("asset", url, FALSE, parent)

Live(r) == r.st \in {"sent", "responded", "redirected"}
AssetCount(rs) == Cardinality({i \in 1..Len(rs) : rs[i].kind = "asset"})

\* resolve or reject the promise of request i and, through
\* .then(resolve).catch(reject), those of the requests it was redirected
\* from; a settled promise stays as it is
RECURSIVE Settle(_, _, _)
Settle(rs, i, outcome) ==
    IF i = 0 \/ rs[i].promise # "pending" THEN rs
    ELSE Settle([rs EXCEPT ![i].promise = outcome], rs[i].parent, outcome)

\* does settling request i settle the promise that getReleaseInfo awaits
RECURSIVE ReachesAwait(_, _)
ReachesAwait(rs, i) ==
    IF i = 0 THEN TRUE
    ELSE IF rs[i].promise # "pending" THEN FALSE
    ELSE ReachesAwait(rs, rs[i].parent)

\* What the outside world may answer.
MetaBodies == {<<>>} \cup {<<id>> : id \in BodyIds}
MetaResponses ==
    {[status |-> 200, body |-> b] : b \in MetaBodies}
    \cup {[status |-> s, body |-> b] :
            s \in {301, 404}, b \in {<<"message">>, <<"mixed">>}}
    \cup {[status |-> 201, body |-> <<"linuxOnly">>]}

ChunkBytes == <<"a", "b", "c", "d">>
BodyOf(k) == [i \in 1..k |-> <<"#", ChunkBytes[i]>>]
AssetResponses ==
    {[status |-> 200, location |-> <<>>, body |-> BodyOf(k)] : k \in 0..MaxChunks}
    \cup {[status |-> 302, location |-> L_cdn, body |-> <<>>],
          [status |-> 302, location |-> <<>>, body |-> <<>>],
          [status |-> 404, location |-> <<>>, body |-> <<>>]}

\* the variable is unset, set to the empty string, or set to a token
TokenValues == {Undefined, JStr(<<>>), JStr(<<"t", "k">>)}

Init ==
    /\ variant \in Variants
    /\ args \in ArgLists(variant)
    /\ env \in [GITHUB_TOKEN : TokenValues]
    /\ disk \in Disks
    /\ disk0 = disk
    /\ pc = "start"
    /\ exitCode = -1
    /\ err = "none"
    /\ manifest = Undefined
    /\ release = "none"
    /\ releaseInfo = NoInfo
    /\ reqs = <<>>
    /\ log = <<>>

\* process.exit(code), after the error was printed
Exit(code, e) ==
    /\ pc' = "exited"
    /\ exitCode' = code
    /\ err' = e

\* The script's top level: the argument check, then updateManifest up to
\* its first await (inside httpsRequest).
Main ==
    /\ pc = "start"
    /\ IF ~ArgsOk(args)
       THEN /\ Exit(UsageExit(variant), "UsageError")
            /\ UNCHANGED <<manifest, reqs, log>>
       ELSE IF ~disk.exists
       THEN /\ Exit(1, "ManifestNotFound")
            /\ log' = <<"exists">>
            /\ UNCHANGED <<manifest, reqs>>
       ELSE IF ~JSONparse(disk.toks).ok
       THEN /\ Exit(1, "ManifestParseError")
            /\ log' = <<"exists", "read">>
            /\ UNCHANGED <<manifest, reqs>>
       ELSE /\ manifest' = JSONparse(disk.toks).v
            /\ reqs' = <<httpsRequest(variant, env, releaseUrl(variant, args))>>
            /\ log' = <<"exists", "read", "get">>
            /\ pc' = "awaitRelease"
            /\ UNCHANGED <<exitCode, err>>
    /\ UNCHANGED <<variant, args, env, disk, disk0, release, releaseInfo>>

\* mutant: the file is written before the update is known to have succeeded
FinishWritesFirst(relInfo, rs) ==
    LET upd == updateFields(variant, manifest, relInfo, newVersionOf(variant, args))
    IN /\ reqs' = rs
       /\ releaseInfo' = relInfo
       /\ manifest' = upd.m
       /\ disk' = File(updatedContent(upd.m))
       /\ log' = log \o <<"hash", "write">>
       /\ IF ~upd.ok
          THEN Exit(1, "TypeError")
          ELSE IF variant = "resolver"
          THEN Exit(0, "none")
          ELSE pc' = "returned" /\ UNCHANGED <<exitCode, err>>

\* The rest of updateManifest once getReleaseInfo has returned relInfo:
\* the field updates, the write and, in the resolver variant, exit(0).
Finish(relInfo, rs) ==
    LET upd == updateFields(variant, manifest, relInfo, newVersionOf(variant, args))
    IN /\ reqs' = rs
       /\ releaseInfo' = relInfo
       /\ manifest' = upd.m
       /\ IF ~upd.ok
          THEN /\ Exit(1, "TypeError")
               /\ log' = Append(log, "hash")
               /\ UNCHANGED disk
          ELSE /\ disk' = File(updatedContent(upd.m))
               /\ log' = log \o <<"hash", "write">>
               /\ IF variant = "resolver"
                  THEN Exit(0, "none")
                  ELSE pc' = "returned" /\ UNCHANGED <<exitCode, err>>

\* the record getReleaseInfo returns for release rel and downloaded buffer
releaseInfoOf(v, a, rel, buffer) ==
    [set |-> TRUE,
     version |-> newVersionOf(v, a),
     repoUrl |-> IF v = "resolver" THEN repoUrlMatch(rel.html_url).text ELSE <<>>,
     releaseUrl |-> rel.html_url,
     assetUrl |-> rel.assets[windowsAsset(v, rel.assets)].browser_download_url,
     hash |-> sha256hex(buffer)]

\* getReleaseInfo after downloadAsset resolved with buffer
AfterDownload(buffer, rs) ==
    LET rel     == Body(release)
        mt      == repoUrlMatch(rel.html_url)
        relInfo == releaseInfoOf(variant, args, rel, buffer)
    IN IF variant = "resolver" /\ ~mt.found
       THEN /\ Exit(1, "TypeError")
            /\ reqs' = rs
            /\ log' = Append(log, "hash")
            /\ UNCHANGED <<disk, manifest, releaseInfo>>
       ELSE Finish(relInfo, rs)

\* getReleaseInfo after httpsRequest resolved with the body named id
AfterRelease(id, rs) ==
    LET rel == Body(id)
        w   == windowsAsset(variant, rel.assets)
    IN /\ release' = id
       /\ IF ~rel.hasAssets
          THEN /\ Exit(1, "TypeError")
               /\ reqs' = rs
               /\ UNCHANGED log
          ELSE IF w = 0
          THEN /\ Exit(1, "AssetNotFound")
               /\ reqs' = rs
               /\ UNCHANGED log
          ELSE /\ reqs' = Append(rs, downloadAsset(rel.assets[w].browser_download_url, 0))
               /\ log' = Append(log, "get")
               /\ pc' = "awaitAsset"
               /\ UNCHANGED <<exitCode, err>>

\* mutant: the rejection is swallowed and the run goes on
RejectSwallowed(i, rs, e) ==
    /\ reqs' = Settle(rs, i, "rejected")
    /\ UNCHANGED <<variant, args, env, disk, disk0, pc, exitCode, err, manifest,
                   release, releaseInfo, log>>

\* A promise of request i is rejected with error e: when the rejection
\* reaches the awaited promise, getReleaseInfo rethrows and updateManifest
\* catches and exits 1.
Reject(i, rs, e) ==
    /\ reqs' = Settle(rs, i, "rejected")
    /\ IF ReachesAwait(rs, i)
       THEN Exit(1, e)
       ELSE UNCHANGED <<pc, exitCode, err>>
    /\ UNCHANGED <<variant, args, env, disk, disk0, manifest, release,
                   releaseInfo, log>>

Running == pc \in {"awaitRelease", "awaitAsset", "returned"}

\* request.on("error"): the listener stays registered for as long as the
\* request lives, after its response and after a redirect as well
RequestError(i) ==
    /\ Running
    /\ Live(reqs[i])
    /\ Reject(i, [reqs EXCEPT ![i].st = "failed"],
              IF reqs[i].kind = "meta" THEN "NetworkError" ELSE "DownloadError")

\* request.setTimeout callback: request.destroy(), then reject
RequestTimeout(i) ==
    /\ Running
    /\ Live(reqs[i])
    /\ Reject(i, [reqs EXCEPT ![i].st = "destroyed"],
              IF reqs[i].kind = "meta" THEN "RequestTimeout" ELSE "DownloadTimeout")

\* httpsRequest: the response callback registers the data and end handlers
MetaResponse(resp) ==
    /\ pc = "awaitRelease"
    /\ reqs[1].st = "sent"
    /\ reqs' = [reqs EXCEPT ![1].st = "responded", ![1].status = resp.status,
                            ![1].todo = resp.body]
    /\ UNCHANGED <<variant, args, env, disk, disk0, pc, exitCode, err, manifest,
                   release, releaseInfo, log>>

\* response.on("data") of either function: data += chunk, chunks.push(chunk)
ResponseData(i) ==
    /\ Running
    /\ reqs[i].st = "responded"
    /\ reqs[i].todo # <<>>
    /\ reqs' = [reqs EXCEPT ![i].data = Append(@, Head(reqs[i].todo)),
                            ![i].todo = Tail(@)]
    /\ UNCHANGED <<variant, args, env, disk, disk0, pc, exitCode, err, manifest,
                   release, releaseInfo, log>>

\* mutant: every status counts as success
IsSuccessStatusAny(status) == TRUE

\* status check of httpsRequest's end handler
IsSuccessStatus(status) == status >= 200 /\ status < 300

\* JSON.parse(data) of the accumulated response text
ParsesAsJson(data) == Len(data) = 1 /\ Body(data[1]).json

\* httpsRequest: response.on("end")
MetaEnd ==
    /\ pc = "awaitRelease"
    /\ reqs[1].st = "responded"
    /\ reqs[1].todo = <<>>
    /\ LET rs == [reqs EXCEPT ![1].st = "ended"] IN
       IF ~IsSuccessStatus(reqs[1].status)
       THEN Reject(1, rs, "ApiError")
       ELSE IF ~ParsesAsJson(reqs[1].data)
       THEN Reject(1, rs, "ApiParseError")
       ELSE /\ AfterRelease(reqs[1].data[1], Settle(rs, 1, "resolved"))
            /\ UNCHANGED <<variant, args, env, disk, disk0, manifest, releaseInfo>>

\* mutant: a 3xx response is followed whether or not it has a Location
IsRedirectAny3xx(v, resp) ==
    v = "resolver" /\ resp.status >= 300 /\ resp.status < 400

\* the redirect test of downloadAsset's response callback; the older
\* variant has none
IsRedirect(v, resp) ==
    /\ v = "resolver"
    /\ resp.status >= 300
    /\ resp.status < 400
    /\ resp.location # <<>>

\* downloadAsset: the response callback
AssetResponse(i, resp) ==
    /\ pc = "awaitAsset"
    /\ reqs[i].kind = "asset"
    /\ reqs[i].st = "sent"
    /\ IsRedirect(variant, resp) => AssetCount(reqs) < MaxHops
    /\ IF IsRedirect(variant, resp)
       THEN /\ reqs' = Append([reqs EXCEPT ![i].st = "redirected",
                                           ![i].status = resp.status,
                                           ![i].location = resp.location],
                              downloadAsset(resp.location, i))
            /\ log' = Append(log, "get")
            /\ UNCHANGED <<variant, args, env, disk, disk0, pc, exitCode, err,
                           manifest, release, releaseInfo>>
       ELSE IF resp.status # 200
       THEN Reject(i, [reqs EXCEPT ![i].st = "responded",
                                   ![i].status = resp.status,
                                   ![i].location = resp.location],
                   "DownloadError")
       ELSE /\ reqs' = [reqs EXCEPT ![i].st = "responded",
                                    ![i].status = resp.status,
                                    ![i].todo = resp.body]
            /\ UNCHANGED <<variant, args, env, disk, disk0, pc, exitCode, err,
                           manifest, release, releaseInfo, log>>

\* downloadAsset: response.on("end") resolves with Buffer.concat(chunks)
AssetEnd(i) ==
    /\ pc = "awaitAsset"
    /\ reqs[i].kind = "asset"
    /\ reqs[i].st = "responded"
    /\ reqs[i].todo = <<>>
    /\ LET rs == [reqs EXCEPT ![i].st = "ended"] IN
       IF ReachesAwait(rs, i)
       THEN /\ AfterDownload(BufferConcat(reqs[i].data), Settle(rs, i, "resolved"))
            /\ UNCHANGED <<variant, args, env, disk0, release>>
       ELSE /\ reqs' = Settle(rs, i, "resolved")
            /\ UNCHANGED <<variant, args, env, disk, disk0, pc, exitCode, err,
                           manifest, release, releaseInfo, log>>

\* The older variant never calls process.exit on success: the process ends
\* with status 0 when nothing is left on the event loop.
EventLoopDrain ==
    /\ pc = "returned"
    /\ \A i \in 1..Len(reqs) : ~Live(reqs[i])
    /\ Exit(0, "none")
    /\ UNCHANGED <<variant, args, env, disk, disk0, manifest, release,
                   releaseInfo, reqs, log>>

Next ==
    \/ Main
    \/ \E resp \in MetaResponses : MetaResponse(resp)
    \/ MetaEnd
    \/ \E i \in 1..Len(reqs) : ResponseData(i)
    \/ \E i \in 1..Len(reqs) : RequestError(i)
    \/ \E i \in 1..Len(reqs) : RequestTimeout(i)
    \/ \E i \in 1..Len(reqs), resp \in AssetResponses : AssetResponse(i, resp)
    \/ \E i \in 1..Len(reqs) : AssetEnd(i)
    \/ EventLoopDrain

Spec == Init /\ [][Next]_vars

\* A second run: the file on disk is what a first successful run wrote for
\* one of the manifests, with the release data of FirstRunBodies and a
\* one-chunk download.
RerunManifests == WellFormedManifests \cup {M_sparse}
FirstRunBodies == {"mixed", "dup"}
FirstRuns(v, a) ==
    {updateFields(v, m,
                  releaseInfoOf(v, a, Body(id), BufferConcat(BodyOf(1))),
                  newVersionOf(v, a)) :
        m \in RerunManifests, id \in FirstRunBodies}
FirstRunFiles(v, a) ==
    {File(updatedContent(u.m)) : u \in {x \in FirstRuns(v, a) : x.ok}}

InitRerun ==
    /\ variant \in Variants
    /\ args \in {FullArgs(variant, ver) : ver \in Versions}
    /\ env \in [GITHUB_TOKEN : TokenValues]
    /\ disk \in FirstRunFiles(variant, args)
    /\ disk0 = disk
    /\ pc = "start"
    /\ exitCode = -1
    /\ err = "none"
    /\ manifest = Undefined
    /\ release = "none"
    /\ releaseInfo = NoInfo
    /\ reqs = <<>>
    /\ log = <<>>

SpecRerun == InitRerun /\ [][Next]_vars

\* Every request in flight has an armed timer (request.setTimeout): while a
\* request stays in flight, a timeout callback eventually runs.
Timeouts == \E i \in 1..Len(reqs) : RequestTimeout(i)
SpecFair == Spec /\ WF_vars(Timeouts)

----------------------------------------------------------------------------
(* Vocabulary of the properties. *)

Orig == JSONparse(disk0.toks).v       \* the document before the run
Now  == JSONparse(disk.toks).v        \* the document re-parsed after it
Written == log # <<>> /\ log[Len(log)] = "write"
Succeeded == pc = "exited" /\ exitCode = 0
Has(v, k) == v.t = "obj" /\ KeyIndex(v.kv, k) # 0
IsStrAt(v, k) == Has(v, k) /\ GetProp(v, k).t = "str"

\* a manifest as the data model describes it
WellFormed(m) ==
    /\ \A k \in {K_version, K_homepage, K_license, K_url, K_hash} : IsStrAt(m, k)
    /\ Has(m, K_checkver) =>
         (GetProp(m, K_checkver).t = "obj" /\ IsStrAt(GetProp(m, K_checkver), K_github))
    /\ Has(m, K_autoupdate) =>
         (GetProp(m, K_autoupdate).t = "obj" /\ IsStrAt(GetProp(m, K_autoupdate), K_url))

\* v with the value at a key path blanked, when the path exists in v
RECURSIVE Blank(_, _)
Blank(v, path) ==
    IF ~Has(v, path[1]) THEN v
    ELSE IF Len(path) = 1 THEN SetProp(v, path[1], JStr(<<>>))
    ELSE SetProp(v, path[1], Blank(GetProp(v, path[1]), Tail(path)))
RECURSIVE BlankAll(_, _)
BlankAll(v, paths) ==
    IF paths = <<>> THEN v ELSE BlankAll(Blank(v, Head(paths)), Tail(paths))

\* the two documents agree in keys, order, nesting and values outside paths
SameExcept(a, b, paths) == BlankAll(a, paths) = BlankAll(b, paths)

\* number of objects open just before lexeme i
Depth(toks, i) ==
    Cardinality({j \in 1..(i - 1) : toks[j].k = "lbrace"})
    - Cardinality({j \in 1..(i - 1) : toks[j].k = "rbrace"})

\* the text is laid out as JSON.stringify(v, null, 2) lays it out: one
\* member per line, two spaces per level, one space after each colon
TwoSpaceLayout(toks) ==
    \A i \in 1..(Len(toks) - 1) :
        LET tk == toks[i]  nx == toks[i + 1] IN
        /\ tk.k = "nl" =>
             tk.n = 2 * (Depth(toks, i) - (IF nx.k = "rbrace" THEN 1 ELSE 0))
        /\ tk.k = "sp" => (tk.n = 1 /\ i > 1 /\ toks[i - 1].k = "colon")
        /\ tk.k = "colon" => nx.k = "sp"
        /\ tk.k = "comma" => nx.k = "nl"
        /\ tk.k = "lbrace" => nx.k \in {"nl", "rbrace"}
        /\ (nx.k = "rbrace" /\ tk.k # "lbrace") => tk.k = "nl"

OneTrailingNewline(toks) ==
    /\ Len(toks) >= 2
    /\ toks[Len(toks)] = NL(0)
    /\ ~IsWs(toks[Len(toks) - 1])

CorePaths == <<<<K_version>>, <<K_url>>, <<K_hash>>>>
RepoPaths == <<<<K_homepage>>, <<K_checkver, K_github>>>>
AutoPaths == <<<<K_autoupdate, K_url>>, <<K_autoupdate, K_hash, K_url>>>>
ClaimedPaths == IF variant = "resolver" THEN CorePaths \o RepoPaths ELSE CorePaths

----------------------------------------------------------------------------
(* C1 as stated: after a successful run on a well-formed manifest the      *)
(* re-parsed file equals the original except for version, url, hash (and   *)
(* homepage, checkver.github in the resolver variant), everything under    *)
(* autoupdate included, and is laid out with 2 spaces and one final        *)
(* newline.  Refuted: autoupdate.url and autoupdate.hash.url are rewritten.*)
C1_Original ==
    (Succeeded /\ WellFormed(Orig)) =>
        /\ SameExcept(Orig, Now, ClaimedPaths)
        /\ TwoSpaceLayout(disk.toks)
        /\ OneTrailingNewline(disk.toks)

(* C1 amended: after a successful run on a well-formed manifest the        *)
(* re-parsed file equals the original in keys, key order, nesting and      *)
(* values except for the values of version, url, hash, autoupdate.url and  *)
(* autoupdate.hash.url (and homepage, checkver.github in the resolver      *)
(* variant); the file is laid out with 2-space indentation and ends with   *)
(* exactly one newline.                                                    *)
C1_RoundTrip ==
    (Succeeded /\ WellFormed(Orig)) =>
        /\ SameExcept(Orig, Now, ClaimedPaths \o AutoPaths)
        /\ TwoSpaceLayout(disk.toks)
        /\ OneTrailingNewline(disk.toks)

\* a successful run on the full manifest, stored compactly before the run
C1_Witness ==
    /\ Succeeded
    /\ disk0 = File(Stringify(M_full, 0))
    /\ GetProp(GetProp(Now, K_autoupdate), K_bin) = JStr(O_bin)
    /\ GetProp(Now, K_version) = JStr(newVersionOf(variant, args))
    /\ disk # disk0

----------------------------------------------------------------------------
(* C2: when the manifest path names a file that is not valid JSON, the run *)
(* fails with the parse error, exits with a nonzero status, and the file   *)
(* on disk is the same as before the run.                                  *)
C2_ParseErrorLeavesFile ==
    (ArgsOk(args) /\ disk0 \in NonJsonFiles /\ pc # "start") =>
        /\ pc = "exited"
        /\ err = "ManifestParseError"
        /\ exitCode > 0
        /\ disk = disk0
        /\ reqs = <<>>

\* a run on a manifest with a trailing comma has ended
C2_Witness ==
    /\ pc = "exited"
    /\ ArgsOk(args)
    /\ disk0 = File(Stringify(M_min, 2) \o <<Comma>>)
    /\ err = "ManifestParseError"

----------------------------------------------------------------------------
C3_Matches(name) ==
    includes(name, S_windows)
    /\ (includes(name, S_amd64) \/ includes(name, S_x86_64))
C3_First(assets) ==
    IF \E i \in 1..Len(assets) : C3_Matches(assets[i].name)
    THEN CHOOSE i \in 1..Len(assets) :
            /\ C3_Matches(assets[i].name)
            /\ \A j \in 1..(i - 1) : ~C3_Matches(assets[j].name)
    ELSE 0

(* C3: in the resolver variant getReleaseInfo selects the first asset in   *)
(* list order whose name contains "windows" and "amd64" or "x86_64": the   *)
(* download request, the returned assetUrl and the manifest url are that   *)
(* asset's browser_download_url; when no asset matches, resolution fails   *)
(* and no other asset is chosen.                                           *)
C3_FirstMatchingAsset ==
    (variant = "resolver" /\ release # "none" /\ Body(release).hasAssets) =>
        LET assets == Body(release).assets
            f      == C3_First(assets)
        IN IF f = 0
           THEN /\ pc = "exited"
                /\ exitCode = 1
                /\ ~releaseInfo.set
                /\ AssetCount(reqs) = 0
                /\ disk = disk0
           ELSE /\ Len(reqs) >= 2
                /\ reqs[2].url = assets[f].browser_download_url
                /\ releaseInfo.set =>
                     releaseInfo.assetUrl = assets[f].browser_download_url
                /\ Succeeded =>
                     GetProp(Now, K_url) = JStr(assets[f].browser_download_url)

\* the x86_64 asset precedes the amd64 asset and follows a Linux amd64 one
C3_Witness ==
    /\ variant = "resolver"
    /\ release = "x86first"
    /\ Succeeded
    /\ GetProp(Now, K_url) = JStr(U_x86)

----------------------------------------------------------------------------
(* C4: when the release's asset list holds no Windows asset, the resolver  *)
(* fails with the asset-not-found error and no asset download request is   *)
(* issued in that run.                                                     *)
C4_NoDownload ==
    (/\ release # "none"
     /\ Body(release).hasAssets
     /\ \A i \in 1..Len(Body(release).assets) :
            ~includes(Body(release).assets[i].name, S_windows)) =>
        /\ pc = "exited"
        /\ exitCode = 1
        /\ err = "AssetNotFound"
        /\ AssetCount(reqs) = 0
        /\ \A i \in 1..Len(log) : log[i] # "hash"

\* the release that only has app-linux-amd64.tar.gz
C4_Witness ==
    /\ release = "linuxOnly"
    /\ Body(release).assets = <<Asset(N_linux, U_linux)>>
    /\ pc = "exited"
    /\ err = "AssetNotFound"

----------------------------------------------------------------------------
\* app-$version-windows-amd64.zip
T_win == SubSeq(N_win34, 1, 4) \o S_dollarVersion \o SubSeq(N_win34, 11, Len(N_win34))

AutoupdateUrlNow == GetProp(GetProp(Now, K_autoupdate), K_url).s
HadAutoupdate == GetProp(Orig, K_autoupdate).t = "obj"

(* C5 as stated: with an autoupdate object, asset filename                 *)
(* app-0.0.33-windows-amd64.zip and new version 0.0.34, the written        *)
(* autoupdate.url ends in app-$version-windows-amd64.zip.  Refuted: 0.0.34 *)
(* does not occur in that filename.                                        *)
C5_Original ==
    (/\ Written
     /\ HadAutoupdate
     /\ splitPop(releaseInfo.assetUrl) = N_win33
     /\ newVersionOf(variant, args) = V_0_0_34) =>
        splitPop(AutoupdateUrlNow) = T_win

(* C5 amended: with an autoupdate object and new version 0.0.34, the asset *)
(* filename app-0.0.34-windows-amd64.zip gives an autoupdate.url whose     *)
(* final segment is app-$version-windows-amd64.zip; the filename           *)
(* app-0.0.33-windows-amd64.zip, in which 0.0.34 does not occur, is left   *)
(* as it is.                                                               *)
C5_Template ==
    (Written /\ HadAutoupdate /\ newVersionOf(variant, args) = V_0_0_34) =>
        /\ splitPop(releaseInfo.assetUrl) = N_win34 =>
             splitPop(AutoupdateUrlNow) = T_win
        /\ splitPop(releaseInfo.assetUrl) = N_win33 =>
             splitPop(AutoupdateUrlNow) = N_win33

C5_Witness ==
    /\ Written
    /\ HadAutoupdate
    /\ newVersionOf(variant, args) = V_0_0_34
    /\ splitPop(releaseInfo.assetUrl) = N_win34
    /\ splitPop(AutoupdateUrlNow) = T_win

----------------------------------------------------------------------------
(* C6: whenever the manifest has an autoupdate object, the written         *)
(* autoupdate.url is assetUrl with only its final path segment changed:    *)
(* the occurrence of the version in the filename is replaced by $version   *)
(* and everything before the filename is unchanged; when the version does  *)
(* not occur in the filename, autoupdate.url is assetUrl and the run still *)
(* succeeds.  Refuted by the code: the filename is replaced at its first   *)
(* occurrence in the URL, which need not be the final segment.             *)
C6_Claim ==
    (Written /\ HadAutoupdate) =>
        LET url  == releaseInfo.assetUrl
            ver  == newVersionOf(variant, args)
            file == splitPop(url)
            dir  == SubSeq(url, 1, Len(url) - Len(file))
        IN /\ AutoupdateUrlNow = dir \o replace(file, ver, S_dollarVersion)
           /\ ~includes(file, ver) => AutoupdateUrlNow = url
           /\ err = "none"

----------------------------------------------------------------------------
HashUrlOf(m) == GetProp(GetProp(GetProp(m, K_autoupdate), K_hash), K_url)
NoHashKeyCreated ==
    /\ Has(Now, K_autoupdate) => Has(Orig, K_autoupdate)
    /\ Has(GetProp(Now, K_autoupdate), K_hash) =>
         Has(GetProp(Orig, K_autoupdate), K_hash)
    /\ HashUrlOf(Now) # Undefined => HashUrlOf(Orig) # Undefined

(* C7 as stated: autoupdate.hash.url is set to assetUrl + ".sha256" if and *)
(* only if the original manifest had an autoupdate.hash.url, and no        *)
(* autoupdate, autoupdate.hash or autoupdate.hash.url key is created.      *)
(* Refuted: an autoupdate.hash.url that is the empty string is left as is. *)
C7_Original ==
    Written =>
        /\ (HashUrlOf(Now) = JStr(releaseInfo.assetUrl \o S_sha256Suffix))
             <=> (HashUrlOf(Orig) # Undefined)
        /\ NoHashKeyCreated

(* C7 amended: autoupdate.hash.url is set to assetUrl + ".sha256" if and   *)
(* only if the original manifest had a non-empty autoupdate.hash.url; the  *)
(* updater never creates an autoupdate object, an autoupdate.hash object   *)
(* or an autoupdate.hash.url key that the original manifest did not have.  *)
C7_HashUrl ==
    Written =>
        /\ (HashUrlOf(Now) = JStr(releaseInfo.assetUrl \o S_sha256Suffix))
             <=> (HashUrlOf(Orig).t = "str" /\ HashUrlOf(Orig).s # <<>>)
        /\ HashUrlOf(Orig) = JStr(<<>>) => HashUrlOf(Now) = JStr(<<>>)
        /\ NoHashKeyCreated

C7_Witness ==
    /\ Written
    /\ HashUrlOf(Orig) = JStr(O_auHashUrl)
    /\ HashUrlOf(Now) = JStr(releaseInfo.assetUrl \o S_sha256Suffix)
    /\ releaseInfo.assetUrl # <<>>

----------------------------------------------------------------------------
(* C8: in the resolver variant, homepage and checkver.github are           *)
(* overwritten with repoUrl when present; an absent key, the checkver      *)
(* object in particular, is left absent, and the update of version, url    *)
(* and hash still succeeds with exit 0.  Refuted by the code: without a    *)
(* checkver object the assignment throws and the run exits 1.              *)
C8_Claim ==
    (variant = "resolver" /\ releaseInfo.set /\ pc = "exited") =>
        LET repo == JStr(releaseInfo.repoUrl) IN
        /\ exitCode = 0
        /\ GetProp(Now, K_version) = JStr(releaseInfo.version)
        /\ GetProp(Now, K_url) = JStr(releaseInfo.assetUrl)
        /\ GetProp(Now, K_hash) = JStr(releaseInfo.hash)
        /\ Has(Orig, K_homepage) => GetProp(Now, K_homepage) = repo
        /\ Has(Now, K_homepage) => Has(Orig, K_homepage)
        /\ Has(GetProp(Orig, K_checkver), K_github) =>
             GetProp(GetProp(Now, K_checkver), K_github) = repo
        /\ Has(Now, K_checkver) => Has(Orig, K_checkver)
        /\ Has(GetProp(Now, K_checkver), K_github) =>
             Has(GetProp(Orig, K_checkver), K_github)

----------------------------------------------------------------------------
----------------------------------------------------------------------------
\* a failure of one of the kinds of the error-handling design has happened
C10_FailureSeen ==
    \/ pc # "start" /\ ~disk0.exists
    \/ pc # "start" /\ disk0 \in NonJsonFiles
    \/ \E i \in 1..Len(reqs) : reqs[i].st \in {"failed", "destroyed"}
    \/ \E i \in 1..Len(reqs) : reqs[i].promise = "rejected"
    \/ /\ reqs # <<>>
       /\ reqs[1].st = "ended"
       /\ \/ reqs[1].status < 200
          \/ reqs[1].status > 299
          \/ reqs[1].data = <<>>
          \/ reqs[1].data = <<"invalid">>
    \/ release = "linuxOnly"
    \/ \E i \in 1..Len(reqs) :
          reqs[i].kind = "asset" /\ reqs[i].st = "responded" /\ reqs[i].status # 200

\* every request has a reason that is not a retry: one metadata request,
\* one download of the chosen asset, and one request per redirect followed
C10_NoRetry ==
    \A i \in 1..Len(reqs) :
        /\ reqs[i].kind = "meta" <=> i = 1
        /\ i = 2 => (reqs[i].parent = 0 /\ reqs[1].promise = "resolved")
        /\ i > 2 => /\ reqs[i].parent = i - 1
                    /\ reqs[i - 1].status >= 300
                    /\ reqs[i - 1].status < 400
                    /\ reqs[i - 1].location = reqs[i].url
                    /\ reqs[i - 1].st \in {"redirected", "destroyed", "failed"}

----------------------------------------------------------------------------
InLog(what) == \E i \in 1..Len(log) : log[i] = what
InFlight(i) == Live(reqs[i])

(* C11: the network operations happen in strict sequence.  An asset        *)
(* download request exists only when the metadata response has ended with  *)
(* a 2xx status and a body that parsed; the hash is computed only after    *)
(* the end event of a download answered with 200, over the complete body;  *)
(* the manifest is written only after the hash; the metadata request and   *)
(* an asset download are never in flight together.                         *)
C11_StrictSequence ==
    /\ AssetCount(reqs) > 0 =>
          /\ reqs[1].kind = "meta"
          /\ reqs[1].st = "ended"
          /\ reqs[1].promise = "resolved"
          /\ reqs[1].status >= 200 /\ reqs[1].status < 300
          /\ reqs[1].todo = <<>>
          /\ Len(reqs[1].data) = 1 /\ Body(reqs[1].data[1]).json
          /\ release = reqs[1].data[1]
    /\ InLog("hash") =>
          \E i \in 1..Len(reqs) :
             /\ reqs[i].kind = "asset"
             /\ reqs[i].st = "ended"
             /\ reqs[i].status = 200
             /\ reqs[i].todo = <<>>
             /\ releaseInfo.set =>
                  releaseInfo.hash = sha256hex(BufferConcat(reqs[i].data))
    /\ InLog("write") =>
          /\ releaseInfo.set
          /\ \E i \in 1..Len(log) :
                log[i] = "hash" /\ \A j \in 1..i : log[j] # "write"
    /\ \A i, j \in 1..Len(reqs) :
          ~(reqs[i].kind = "meta" /\ reqs[j].kind = "asset"
            /\ InFlight(i) /\ InFlight(j))

\* a run that wrote the manifest after a metadata fetch and a two-chunk
\* download
C11_Witness ==
    /\ Succeeded
    /\ InLog("write")
    /\ Len(reqs) = 2
    /\ reqs[1].status = 200
    /\ Len(reqs[2].data) = 2
    /\ releaseInfo.hash = sha256hex(BufferConcat(BodyOf(2)))

----------------------------------------------------------------------------
TokenSet == env.GITHUB_TOKEN.t # "undef"

(* C12 as stated: the release-metadata request of the resolver variant     *)
(* carries the Authorization header exactly when GITHUB_TOKEN is set, and  *)
(* no asset download request carries it.  Refuted by a variable that is    *)
(* set to the empty string: the request goes out without the header.       *)
C12_Original ==
    \A i \in 1..Len(reqs) :
       /\ reqs[i].kind = "asset" => ~reqs[i].auth
       /\ (variant = "resolver" /\ reqs[i].kind = "meta") =>
             (reqs[i].auth <=> TokenSet)

(* C12: in the resolver variant the release-metadata request carries the   *)
(* Authorization header exactly when GITHUB_TOKEN is set to a non-empty    *)
(* value, and in every variant no asset download request carries it, the   *)
(* requests issued for redirects included.                                 *)
C12_Credential ==
    \A i \in 1..Len(reqs) :
       /\ reqs[i].kind = "asset" => ~reqs[i].auth
       /\ (variant = "resolver" /\ reqs[i].kind = "meta") =>
             (reqs[i].auth <=> (TokenSet /\ env.GITHUB_TOKEN.s # <<>>))

\* the token is set, the metadata request carried it, and the download and
\* the request that followed its redirect did not
C12_Witness ==
    /\ variant = "resolver"
    /\ env.GITHUB_TOKEN = JStr(<<"t", "k">>)
    /\ Len(reqs) = 3
    /\ reqs[1].kind = "meta" /\ reqs[1].auth
    /\ reqs[2].st = "redirected" /\ ~reqs[2].auth
    /\ reqs[3].parent = 2 /\ reqs[3].url = L_cdn /\ ~reqs[3].auth

----------------------------------------------------------------------------
IsPrefix(a, b) == Len(a) <= Len(b) /\ SubSeq(b, 1, Len(a)) = a
S_https == SubSeq(S_regexHead, 1, 8)

\* s is https://<host>/<owner>/<repo>: three non-empty segments without a
\* slash and nothing after the third
RepoUrlShape(s) ==
    LET host  == Len(S_https) + 1
        h     == RunLen(s, host)
        owner == host + h + 1
        o     == RunLen(s, owner)
        repo  == owner + o + 1
        r     == RunLen(s, repo)
    IN /\ IsPrefix(S_https, s)
       /\ h >= 1 /\ host + h <= Len(s)
       /\ o >= 1 /\ owner + o <= Len(s)
       /\ r >= 1 /\ repo + r - 1 = Len(s)

(* C13 as stated: whenever resolution succeeds in the resolver variant,    *)
(* repoUrl is a prefix of the release's html_url and has the shape         *)
(* https://<host>/<owner>/<repo>, and it is what a successful run writes   *)
(* to homepage and checkver.github.  Refuted by the code: the pattern is   *)
(* not anchored, so the match may begin inside html_url.                   *)
C13_Claim ==
    (variant = "resolver" /\ releaseInfo.set) =>
        /\ IsPrefix(releaseInfo.repoUrl, Body(release).html_url)
        /\ RepoUrlShape(releaseInfo.repoUrl)
        /\ Succeeded =>
             /\ GetProp(Now, K_homepage) = JStr(releaseInfo.repoUrl)
             /\ GetProp(GetProp(Now, K_checkver), K_github)
                  = JStr(releaseInfo.repoUrl)

----------------------------------------------------------------------------
HasChild(i) == \E j \in 1..Len(reqs) : reqs[j].parent = i
IsAsset(i) == reqs[i].kind = "asset"
Answered(i) == reqs[i].status # 0

\* a response the resolver variant has to follow: 3xx with a Location
Redirecting(r) ==
    variant = "resolver" /\ r.status >= 300 /\ r.status < 400 /\ r.location # <<>>

\* the promise of the downloadAsset call that getReleaseInfo awaits
RootPending == Len(reqs) >= 2 /\ reqs[2].promise = "pending"
RootSettled == Len(reqs) >= 2 /\ reqs[2].promise # "pending"

\* every response so far was a redirect, and a URL was requested twice
AllRedirecting ==
    \A i \in 1..Len(reqs) : (IsAsset(i) /\ Answered(i)) => Redirecting(reqs[i])
InCycle ==
    \E i, j \in 1..Len(reqs) :
        i < j /\ IsAsset(i) /\ IsAsset(j) /\ reqs[i].url = reqs[j].url

\* what each response does to the download
C14_Outcomes ==
    /\ \A i \in 1..Len(reqs) : (IsAsset(i) /\ ~Answered(i)) => ~HasChild(i)
    /\ \A i \in 1..Len(reqs) : (IsAsset(i) /\ Answered(i)) =>
         IF Redirecting(reqs[i])
         THEN \E j \in (i + 1)..Len(reqs) :
                 reqs[j].parent = i /\ reqs[j].url = reqs[i].location
         ELSE /\ ~HasChild(i)
              /\ IF reqs[i].status # 200
                 THEN /\ reqs[i].promise = "rejected"
                      /\ reqs[2].promise = "rejected"
                      /\ pc = "exited" /\ exitCode = 1
                      /\ err = "DownloadError"
                 ELSE /\ reqs[i].promise = "resolved" => reqs[i].st = "ended"
                      /\ reqs[i].st = "ended" =>
                           /\ reqs[i].todo = <<>>
                           /\ reqs[i].promise = "resolved"
                           /\ reqs[2].promise = "resolved"
                           /\ releaseInfo.set =>
                                releaseInfo.hash
                                  = sha256hex(BufferConcat(reqs[i].data))
    /\ (Len(reqs) >= 2 /\ reqs[2].promise = "resolved") =>
          \E i \in 2..Len(reqs) :
             ~HasChild(i) /\ reqs[i].status = 200 /\ reqs[i].st = "ended"

\* following a redirect settles nothing
C14_RedirectStep ==
    (\E i \in 1..Len(reqs) : reqs[i].st = "sent" /\ reqs'[i].st = "redirected")
        => (RootPending' /\ pc' = "awaitAsset" /\ Len(reqs') = Len(reqs) + 1)

\* while every response is a redirect, only a timeout or an error event of
\* one of the requests settles the download
C14_OnlyEventsSettle ==
    (variant = "resolver" /\ AllRedirecting /\ RootSettled) =>
        /\ reqs[2].promise = "rejected"
        /\ \E i \in 2..Len(reqs) : reqs[i].st \in {"destroyed", "failed"}

----------------------------------------------------------------------------
WriteCount == Cardinality({i \in 1..Len(log) : log[i] = "write"})

(* C15: the manifest file is written at most once in a run and only on the *)
(* path that ends in exit 0.  A run that ends with a nonzero exit status   *)
(* (usage error, manifest missing or not JSON, a failure of the resolver,  *)
(* a missing checkver object, an html_url without the repository pattern)  *)
(* leaves the file as it was before the run.                               *)
C15_WriteOnlyOnSuccess ==
    /\ WriteCount <= 1
    /\ WriteCount = 0 => disk = disk0
    /\ WriteCount = 1 =>
          /\ exitCode \in {-1, 0}
          /\ pc \in {"returned", "exited"}
          /\ disk = File(updatedContent(manifest))
    /\ (pc = "exited" /\ exitCode # 0) => (WriteCount = 0 /\ disk = disk0)

\* the download and the hash succeeded, the manifest has no checkver
\* object, and the run ended with status 1
C15_Witness ==
    /\ variant = "resolver"
    /\ pc = "exited" /\ exitCode = 1 /\ err = "TypeError"
    /\ InLog("hash")
    /\ release = "mixed"
    /\ ~Has(Orig, K_checkver)
    /\ disk0.exists /\ disk = disk0

----------------------------------------------------------------------------
\* request j and every request after it belong to a download that is still
\* going on: the last request is in flight and unsettled, and those before
\* it were redirected
InProgressFrom(j) ==
    /\ reqs[Len(reqs)].st \in {"sent", "responded"}
    /\ reqs[Len(reqs)].promise = "pending"
    /\ \A k \in j..(Len(reqs) - 1) : reqs[k].st = "redirected"

(* C16 as stated: once downloadAsset has followed a redirect, the promise  *)
(* returned for the original URL is settled only by the outcome of the     *)
(* redirected download; while that download is in progress, no timeout or  *)
(* error event of the original request rejects the promise or ends the     *)
(* run.  Refuted by the code: the timer and the error listener of the      *)
(* original request are still registered and call its reject.              *)
C16_Claim ==
    \A i \in 1..Len(reqs) :
        (IsAsset(i) /\ HasChild(i) /\ InProgressFrom(i + 1)) =>
            /\ reqs[i].promise = "pending"
            /\ pc = "awaitAsset"

----------------------------------------------------------------------------
\* the file before this run is what a run on manifest m wrote with the
\* release data this run resolved
FirstRunOf(m) ==
    LET u == updateFields(variant, m, releaseInfo, newVersionOf(variant, args))
    IN u.ok /\ disk0 = File(updatedContent(u.m))

(* C17: the updater is idempotent.  When the file is the result of a first *)
(* successful run and a second run resolves the same release data and      *)
(* writes, the file after the second run is the same sequence of lexemes   *)
(* as after the first.                                                     *)
C17_Idempotent ==
    (InLog("write") /\ \E m \in RerunManifests : FirstRunOf(m)) => disk = disk0

\* the second run on the file the first run made from the full manifest,
\* which that first run had changed
C17_Witness ==
    /\ variant = "resolver"
    /\ Succeeded
    /\ release = "mixed"
    /\ FirstRunOf(M_full)
    /\ disk0 # File(Pretty(M_full))
    /\ disk = disk0

====
